---- MODULE Spec2Model ----
(***************************************************************************)
(* zignaly_analysis.py: the entry point dispatches on the input file's     *)
(* extension, get_data_from_html turns the closed-positions table of an    *)
(* HTML report into a list of records, draw_lmplots lays the plots out on  *)
(* a grid and the figure is saved beside the input file.                   *)
(*                                                                         *)
(* Texts are sequences of one-character strings, so that splitting,        *)
(* joining and numeral parsing are computed, not assumed.  Floating-point  *)
(* values are exact rationals <<numerator, denominator>> in lowest terms   *)
(* (IEEE rounding is not modelled).  Instants are whole milliseconds.      *)
(* Python 3 semantics are assumed (true division in line 126).             *)
(***************************************************************************)
EXTENDS Integers, Sequences, FiniteSets, TLC

VARIABLES
    pc,               \* position of the run in the script
    err,              \* the exception that ended the run ("" while none)
    tz,               \* the machine's local time zone (environment)
    locale,           \* the process-wide LC_ALL setting
    input_file,       \* line 146
    document,         \* what BeautifulSoup makes of the file at input_file
    input_file_name,  \* line 151
    input_file_ext,   \* line 151
    table_header,     \* line 52
    table_rows,       \* line 56
    row_index,        \* position of the loop of line 58 (1-based)
    parsed_table,     \* line 45
    data,             \* lines 154, 156: [assigned, frame]
    calls,            \* the loaders called so far, in order
    combinations,     \* line 178
    num_columns,      \* line 125
    num_rows,         \* line 126
    count,            \* line 127
    plots,            \* the plt.subplot / sns.lmplot calls made so far
    image             \* the file written by plt.savefig ("" : none), as a text

vars == <<pc, err, tz, locale, input_file, document, input_file_name,
          input_file_ext, table_header, table_rows, row_index, parsed_table,
          data, calls, combinations, num_columns, num_rows, count, plots, image>>

-----------------------------------------------------------------------------
(* Bounds of the model *)

MaxRows == 2      \* data rows in a table body
MaxPlots == 20    \* combinations handed to draw_lmplots on its own

-----------------------------------------------------------------------------
(* Arithmetic *)

Abs(n) == IF n < 0 THEN -n ELSE n

RECURSIVE GCD(_, _)
GCD(a, b) == IF b = 0 THEN a ELSE GCD(b, a % b)

\* a float, as the exact rational n/d (d > 0) in lowest terms
Rat(n, d) ==
    LET g == GCD(Abs(n), Abs(d))
        s == IF d < 0 THEN -1 ELSE 1
    IN  <<(s * n) \div g, (s * d) \div g>>

RECURSIVE Pow10(_)
Pow10(k) == IF k = 0 THEN 1 ELSE 10 * Pow10(k - 1)

-----------------------------------------------------------------------------
(* Texts *)

NBSP == "nbsp"     \* the character '\xa0' of line 82

Digits == <<"0", "1", "2", "3", "4", "5", "6", "7", "8", "9">>

IsDigit(c) == \E i \in 1..10 : Digits[i] = c

DigitVal(c) == (CHOOSE i \in 1..10 : Digits[i] = c) - 1

AllDigits(s) == \A i \in 1..Len(s) : IsDigit(s[i])

RECURSIVE DigitsVal(_)
DigitsVal(s) ==
    IF s = <<>> THEN 0
    ELSE 10 * DigitsVal(SubSeq(s, 1, Len(s) - 1)) + DigitVal(s[Len(s)])

\* s without its occurrences of c: str.replace(c, '')
RECURSIVE Remove(_, _)
Remove(s, c) ==
    IF s = <<>> THEN <<>>
    ELSE IF Head(s) = c THEN Remove(Tail(s), c)
    ELSE <<Head(s)>> \o Remove(Tail(s), c)

\* position of the first c in s, 0 when there is none: str.find
IndexOf(s, c) ==
    IF \E i \in 1..Len(s) : s[i] = c
    THEN CHOOSE i \in 1..Len(s) : s[i] = c /\ \A j \in 1..(i - 1) : s[j] # c
    ELSE 0

\* position of the last c in s, 0 when there is none: str.rfind
LastIndexOf(s, c) ==
    IF \E i \in 1..Len(s) : s[i] = c
    THEN CHOOSE i \in 1..Len(s) : s[i] = c /\ \A j \in (i + 1)..Len(s) : s[j] # c
    ELSE 0

\* str.split(c): the pieces of s between the occurrences of c, in order
RECURSIVE Split(_, _)
Split(s, c) ==
    LET i == IndexOf(s, c)
    IN  IF i = 0 THEN <<s>>
        ELSE <<SubSeq(s, 1, i - 1)>> \o Split(SubSeq(s, i + 1, Len(s)), c)

-----------------------------------------------------------------------------
(* Conversions *)

Ok(v) == [ok |-> TRUE, err |-> "", val |-> v]

Fail(e) == [ok |-> FALSE, err |-> e]

\* int(text), for texts of signs, digits and other characters
\* (whitespace and underscores, which int() also accepts, are not in the
\* alphabet of the model)
ParseInt(s) ==
    LET signed == s # <<>> /\ s[1] \in {"-", "+"}
        body   == IF signed THEN Tail(s) ELSE s
        sign   == IF signed /\ s[1] = "-" THEN -1 ELSE 1
    IN  IF body # <<>> /\ AllDigits(body)
        THEN Ok(sign * DigitsVal(body))
        ELSE Fail("ValueError")

\* float(text): sign, digits, at most one decimal point, at least one digit
\* (exponents, inf, nan, whitespace and underscores are not in the alphabet
\* of the model)
ParseFloat(s) ==
    LET signed == s # <<>> /\ s[1] \in {"-", "+"}
        body   == IF signed THEN Tail(s) ELSE s
        sign   == IF signed /\ s[1] = "-" THEN -1 ELSE 1
        dot    == IndexOf(body, ".")
        ip     == IF dot = 0 THEN body ELSE SubSeq(body, 1, dot - 1)
        fp     == IF dot = 0 THEN <<>> ELSE SubSeq(body, dot + 1, Len(body))
    IN  IF AllDigits(ip) /\ AllDigits(fp) /\ Len(ip) + Len(fp) >= 1
        THEN Ok(Rat(sign * (DigitsVal(ip) * Pow10(Len(fp)) + DigitsVal(fp)),
                    Pow10(Len(fp))))
        ELSE Fail("ValueError")

\* locale.localeconv()['thousands_sep'] under the two settings of the model
ThousandsSep(loc) == IF loc = "en_US.UTF-8" THEN "," ELSE ""

\* locale.delocalize: drop the thousands separators (the decimal point of both
\* settings is ".")
Delocalize(loc, s) ==
    IF ThousandsSep(loc) = "" THEN s ELSE Remove(s, ThousandsSep(loc))

\* locale.atof
Atof(loc, s) == ParseFloat(Delocalize(loc, s))

MsPerSecond == 1000

\* the local zone's offset from UTC at instant ms
UtcOffset(zone, ms) == IF ms < zone.transition THEN zone.before ELSE zone.after

\* datetime.fromtimestamp(ms / 1000): the naive local wall-clock time of the
\* instant, here in milliseconds
FromTimestamp(zone, ms) == ms + UtcOffset(zone, ms)

\* the difference taken as if the instants were in seconds
TotalSecondsOfMs(close, open) == Rat(close - open, 1)

\* (close - open).total_seconds()
TotalSeconds(close, open) == Rat(close - open, MsPerSecond)

\* a / b on floats
TrueDiv(a, b) ==
    IF b[1] = 0 THEN Fail("ZeroDivisionError")
    ELSE Ok(Rat(a[1] * b[2], a[2] * b[1]))

-----------------------------------------------------------------------------
(* The table of the report                                                 *)
(* A cell (td) is [class, text, times, imgs]: its class attribute, its     *)
(* text, and the attributes of the time and img elements inside it, in     *)
(* document order.  A row (tr) is the sequence of its cells, a document is *)
(* [table, header, rows].                                                  *)

\* the header of the report, in the order of the columns
Header0 ==
    <<"Dates", "Provider", "Pair", "Status", "Buy Price", "Sell Price",
      "Amount", "Invested", "Profit BTC">>

\* row.find('td', {'class': 'date'}): the cells of class date, first first
DateCells(row) == SelectSeq(row, LAMBDA c : c.class = "date")

\* the img elements of a row in document order; row.find('img') is the first
RECURSIVE Images(_)
Images(row) == IF row = <<>> THEN <<>> ELSE Head(row).imgs \o Images(Tail(row))

\* the position of name in the usual order of the columns
HeaderIndexFixed(header, name) == IndexOf(Header0, name)

\* list.index: the first position of name in the header (0: ValueError)
HeaderIndex(header, name) == IndexOf(header, name)

\* row_cells[table_header.index(name)].text
CellText(header, row_cells, name) ==
    LET i == HeaderIndex(header, name)
    IN  IF i = 0 THEN Fail("ValueError")
        ELSE IF i > Len(row_cells) THEN Fail("IndexError")
        ELSE Ok(row_cells[i].text)

\* datetime.fromtimestamp(int(open_close[i].attrs['datetime']) / 1000)
TimeMarker(zone, open_close, i) ==
    IF i > Len(open_close) THEN Fail("IndexError")
    ELSE IF "datetime" \notin DOMAIN open_close[i] THEN Fail("KeyError")
    ELSE LET n == ParseInt(open_close[i].datetime)
         IN  IF n.ok THEN Ok(FromTimestamp(zone, n.val)) ELSE n

\* locale.atof(row_cells[table_header.index(stat)].text.split('\xa0')[0])
Stat(loc, header, row_cells, stat) ==
    LET t == CellText(header, row_cells, stat)
    IN  IF t.ok THEN Atof(loc, Split(t.val, NBSP)[1]) ELSE t

\* parsed_row['Pair'].split('/')[i], 0-based as in the source
PairPart(pair, i) ==
    LET parts == Split(pair, "/")
    IN  IF i + 1 > Len(parts) THEN Fail("IndexError") ELSE Ok(parts[i + 1])

\* The body of the loop over the rows: the record of one row, or the exception
\* that the first failing statement raises.
ParsedRow(zone, loc, header, row) ==
    LET row_cells == row
        dates  == DateCells(row)
        open   == TimeMarker(zone, dates[1].times, 1)
        close  == TimeMarker(zone, dates[1].times, 2)
        imgs   == Images(row)
        pair   == CellText(header, row_cells, "Pair")
        status == CellText(header, row_cells, "Status")
        buy    == Stat(loc, header, row_cells, "Buy Price")
        sell   == Stat(loc, header, row_cells, "Sell Price")
        amount == Stat(loc, header, row_cells, "Amount")
        inv    == Stat(loc, header, row_cells, "Invested")
        profit == Stat(loc, header, row_cells, "Profit BTC")
        pct    == TrueDiv(profit.val, inv.val)
        asset  == PairPart(pair.val, 0)
        curr   == PairPart(pair.val, 1)
    IN  IF dates = <<>> THEN Fail("AttributeError")
        ELSE IF ~open.ok THEN Fail(open.err)
        ELSE IF ~close.ok THEN Fail(close.err)
        ELSE IF imgs = <<>> THEN Fail("AttributeError")
        ELSE IF "title" \notin DOMAIN imgs[1] THEN Fail("KeyError")
        ELSE IF ~pair.ok THEN Fail(pair.err)
        ELSE IF ~status.ok THEN Fail(status.err)
        ELSE IF ~buy.ok THEN Fail(buy.err)
        ELSE IF ~sell.ok THEN Fail(sell.err)
        ELSE IF ~amount.ok THEN Fail(amount.err)
        ELSE IF ~inv.ok THEN Fail(inv.err)
        ELSE IF ~profit.ok THEN Fail(profit.err)
        ELSE IF ~pct.ok THEN Fail(pct.err)
        ELSE IF ~asset.ok THEN Fail(asset.err)
        ELSE IF ~curr.ok THEN Fail(curr.err)
        ELSE Ok([Open      |-> open.val,
                 Close     |-> close.val,
                 Provider  |-> imgs[1].title,
                 Pair      |-> pair.val,
                 Status    |-> status.val,
                 BuyPrice  |-> buy.val,
                 SellPrice |-> sell.val,
                 Amount    |-> amount.val,
                 Invested  |-> inv.val,
                 Profit    |-> profit.val,
                 Duration  |-> TotalSeconds(close.val, open.val),
                 ProfitPct |-> pct.val,
                 Asset     |-> asset.val,
                 Currency  |-> curr.val])

-----------------------------------------------------------------------------
(* The input files of the model *)

TextCell(t) == [class |-> "", text |-> t, times |-> <<>>, imgs |-> <<>>]

DateCell(times) == [class |-> "date", text |-> <<>>, times |-> times, imgs |-> <<>>]

ImgCell(imgs) == [class |-> "", text |-> <<>>, times |-> <<>>, imgs |-> imgs]

Time(t) == [datetime |-> t]

\* the column names the loop looks up (lines 76, 77, 80)
Required ==
    {"Pair", "Status", "Buy Price", "Sell Price", "Amount", "Invested",
     "Profit BTC"}

MakeRow(date, img, pair, status, buy, sell, amount, invested, profit) ==
    <<date, img, TextCell(pair), TextCell(status), TextCell(buy),
      TextCell(sell), TextCell(amount), TextCell(invested), TextCell(profit)>>

Acme == ImgCell(<<[title |-> "Acme Signals"]>>)

\* ETH/BTC, Closed, Acme Signals, 0.0500, 0.0520, 10, 0.5000, 0.0200,
\* markers 1000000 and 1003600000
ScenarioRow ==
    MakeRow(DateCell(<<Time(<<"1", "0", "0", "0", "0", "0", "0">>), Time(<<"1", "0", "0", "3", "6", "0", "0", "0", "0", "0">>)>>), Acme,
            <<"E", "T", "H", "/", "B", "T", "C">>, <<"C", "l", "o", "s", "e", "d">>, <<"0", ".", "0", "5", "0", "0">>, <<"0", ".", "0", "5", "2", "0">>, <<"1", "0">>, <<"0", ".", "5", "0", "0", "0">>, <<"0", ".", "0", "2", "0", "0">>)

\* thousands separators, unit suffixes, a loss, markers 4000 and 6000
SuffixRow ==
    MakeRow(DateCell(<<Time(<<"4", "0", "0", "0">>), Time(<<"6", "0", "0", "0">>)>>),
            ImgCell(<<[title |-> "Beta"]>>),
            <<"X", "R", "P", "/", "U", "S", "D", "T">>, <<"S", "o", "l", "d">>, <<"1", ",", "2", "3", "4", ".", "5", "6", NBSP, "U", "S", "D", "T">>, <<"1", ",", "2", "0", "0", NBSP, "U", "S", "D", "T">>, <<"2", ".", "5", NBSP, "X", "R", "P">>,
            <<"3", ",", "0", "8", "6", ".", "4", NBSP, "U", "S", "D", "T">>, <<"-", "8", "6", ".", "4", NBSP, "U", "S", "D", "T">>)

\* a pair with two separators
TwoSlashRow ==
    MakeRow(DateCell(<<Time(<<"2", "0", "0", "0">>), Time(<<"3", "0", "0", "0">>)>>), Acme,
            <<"A", "/", "B", "/", "C">>, <<"C", "l", "o", "s", "e", "d">>, <<"1">>, <<"2">>, <<"3">>, <<"4">>, <<"1">>)

\* a second cell of class date and a second image, both after the first
TwoDatesRow ==
    <<DateCell(<<Time(<<"7", "0", "0", "0">>), Time(<<"9", "0", "0", "0">>)>>), Acme, TextCell(<<"L", "T", "C", "/", "B", "T", "C">>),
      [class |-> "date", text |-> <<"C", "l", "o", "s", "e", "d">>,
       times |-> <<Time(<<"1", "0", "0", "0">>), Time(<<"2", "0", "0", "0">>)>>,
       imgs |-> <<[title |-> "Beta"]>>],
      TextCell(<<"1">>), TextCell(<<"2">>), TextCell(<<"3">>), TextCell(<<"4">>), TextCell(<<"1">>)>>

NoSlashRow ==
    MakeRow(DateCell(<<Time(<<"2", "0", "0", "0">>), Time(<<"3", "0", "0", "0">>)>>), Acme,
            <<"E", "T", "H", "B", "T", "C">>, <<"C", "l", "o", "s", "e", "d">>, <<"1">>, <<"2">>, <<"3">>, <<"4">>, <<"1">>)

BadNumeralRow ==
    MakeRow(DateCell(<<Time(<<"2", "0", "0", "0">>), Time(<<"3", "0", "0", "0">>)>>), Acme,
            <<"E", "T", "H", "/", "B", "T", "C">>, <<"C", "l", "o", "s", "e", "d">>, <<"1">>, <<"n", "/", "a">>, <<"3">>, <<"4">>, <<"1">>)

ZeroInvestedRow ==
    MakeRow(DateCell(<<Time(<<"2", "0", "0", "0">>), Time(<<"3", "0", "0", "0">>)>>), Acme,
            <<"E", "T", "H", "/", "B", "T", "C">>, <<"C", "l", "o", "s", "e", "d">>, <<"1">>, <<"2">>, <<"3">>, <<"0", ".", "0", "0">>, <<"1">>)

OneMarkerRow ==
    MakeRow(DateCell(<<Time(<<"2", "0", "0", "0">>)>>), Acme,
            <<"E", "T", "H", "/", "B", "T", "C">>, <<"O", "p", "e", "n">>, <<"1">>, <<"2">>, <<"3">>, <<"4">>, <<"1">>)

BadMarkerRow ==
    MakeRow(DateCell(<<Time(<<"2", "0", "0", "0">>), Time(<<"3", ".", "5">>)>>), Acme,
            <<"E", "T", "H", "/", "B", "T", "C">>, <<"C", "l", "o", "s", "e", "d">>, <<"1">>, <<"2">>, <<"3">>, <<"4">>, <<"1">>)

NoTitleRow ==
    MakeRow(DateCell(<<Time(<<"2", "0", "0", "0">>), Time(<<"3", "0", "0", "0">>)>>),
            ImgCell(<<[src |-> "logo.png"]>>),
            <<"E", "T", "H", "/", "B", "T", "C">>, <<"C", "l", "o", "s", "e", "d">>, <<"1">>, <<"2">>, <<"3">>, <<"4">>, <<"1">>)

\* a row that ends after its Status cell
ShortRow == SubSeq(ScenarioRow, 1, 4)

GoodRows == {ScenarioRow, SuffixRow, TwoSlashRow, TwoDatesRow}

BadRows ==
    {NoSlashRow, BadNumeralRow, ZeroInvestedRow, OneMarkerRow, BadMarkerRow,
     NoTitleRow}

Range(f) == {f[i] : i \in DOMAIN f}

\* the sequences of at most n members of S
SeqsUpTo(S, n) == UNION {[1..k -> S] : k \in 0..n}

\* seq with its members in the order p: member i is seq[p[i]]
Permute(seq, p) == [i \in 1..Len(p) |-> seq[p[i]]]

Identity == [i \in 1..Len(Header0) |-> i]

Reversed == [i \in 1..Len(Header0) |-> Len(Header0) + 1 - i]

Layouts == {Identity, Reversed}

Doc(header, rows) == [table |-> TRUE, header |-> header, rows |-> rows]

\* the document with its columns in the order p
PermuteDoc(doc, p) ==
    [table  |-> doc.table,
     header |-> Permute(doc.header, p),
     rows   |-> [i \in 1..Len(doc.rows) |-> Permute(doc.rows[i], p)]]

\* header with the name at the position of name replaced
Rename(header, name, other) ==
    [i \in 1..Len(header) |-> IF header[i] = name THEN other ELSE header[i]]

\* a page without the table
NoTableDoc == [table |-> FALSE, header |-> <<>>, rows |-> <<>>]

\* the report pages: every layout with every short body; a header lacking one
\* required name with bodies of well-formed and short rows; no table
HtmlDocs ==
    {PermuteDoc(Doc(Header0, rs), p) :
        p \in Layouts, rs \in SeqsUpTo(GoodRows \cup BadRows, MaxRows)}
    \cup {Doc(Rename(Header0, name, "Profit"), rs) :
            name \in Required,
            rs \in SeqsUpTo({ScenarioRow, SuffixRow, ShortRow}, MaxRows)}
    \cup {NoTableDoc}

\* the scenario's page and a page without the table
PlainDocs == {Doc(Header0, <<ScenarioRow>>), NoTableDoc}

\* the contents of a delimited text file: a header line and its lines, or no
\* line at all
CsvDocs ==
    {[table |-> FALSE, header |-> <<"Pair", "Profit">>,
      rows |-> <<[Pair |-> <<"E", "T", "H", "/", "B", "T", "C">>, Profit |-> <<"0", ".", "0", "2">>]>>],
     [table |-> FALSE, header |-> <<>>, rows |-> <<>>]}

HtmlExt == <<".", "h", "t", "m", "l">>

CsvExt == <<".", "c", "s", "v">>

\* the first is read with every page of the model, the others with PlainDocs
HtmlFiles == <<<<"i", ".", "h", "t", "m", "l">>, <<"i", ".", "c", "s", "v", ".", "h", "t", "m", "l">>>>

CsvFiles == {<<"i", ".", "c", "s", "v">>, <<"a", ".", "b", "/", "i", ".", "c", "s", "v">>}

OtherFiles == {<<"i", ".", "t", "x", "t">>, <<"i">>, <<".", "h", "t", "m", "l">>, <<"i", ".", "H", "T", "M", "L">>, <<"i", ".", "c", "s", "v", "/", "i">>, <<"i", ".", "h", "t", "m", "l", ".">>}

\* a zone without transitions; a zone that falls back one hour (UTC+2 to
\* UTC+1) at instant 5000; a zone that springs forward there
TimeZones ==
    {[transition |-> 0, before |-> 0, after |-> 0],
     [transition |-> 5000, before |-> 7200000, after |-> 3600000],
     [transition |-> 5000, before |-> 3600000, after |-> 7200000]}

-----------------------------------------------------------------------------
(* The entry point *)

\* os.path.splitext: the extension starts at the last dot of the last path
\* component, unless only dots precede it there
Splitext(p) ==
    LET sepIndex == LastIndexOf(p, "/")
        dotIndex == LastIndexOf(p, ".")
    IN  IF dotIndex > sepIndex
           /\ \E k \in (sepIndex + 1)..(dotIndex - 1) : p[k] # "."
        THEN <<SubSeq(p, 1, dotIndex - 1), SubSeq(p, dotIndex, Len(p))>>
        ELSE <<p, <<>>>>

\* line 153
IsCsv(ext) == ext = CsvExt

\* everything but a CSV file taken for a page
IsNotCsv(ext) == ext # CsvExt

\* line 155
IsHtml(ext) == ext = HtmlExt

\* lines 165-176
independent_vars == <<"Duration (s)">>

dependent_vars == <<"Profit (%)">>

modifiers == <<"Asset", "Provider", "Status">>

\* list(itertools.product(a, b, c)): the last list varies fastest
Product(a, b, c) ==
    [k \in 1..(Len(a) * Len(b) * Len(c)) |->
        <<a[((k - 1) \div (Len(b) * Len(c))) + 1],
          b[(((k - 1) \div Len(c)) % Len(b)) + 1],
          c[((k - 1) % Len(c)) + 1]>>]

NoData == [assigned |-> FALSE, frame |-> <<>>]

Raise(e) == pc' = "error" /\ err' = e

Init ==
    /\ pc = "start"
    /\ err = ""
    /\ tz \in TimeZones
    /\ locale = "C"
    /\ \/ input_file = Head(HtmlFiles) /\ document \in HtmlDocs
       \/ input_file \in Range(Tail(HtmlFiles)) /\ document \in PlainDocs
       \/ input_file \in CsvFiles /\ document \in CsvDocs
       \/ input_file \in OtherFiles /\ document = NoTableDoc
    /\ input_file_name = <<>>
    /\ input_file_ext = <<>>
    /\ table_header = <<>>
    /\ table_rows = <<>>
    /\ row_index = 0
    /\ parsed_table = <<>>
    /\ data = NoData
    /\ calls = <<>>
    /\ combinations = <<>>
    /\ num_columns = 0
    /\ num_rows = 0
    /\ count = 0
    /\ plots = <<>>
    /\ image = <<>>

\* line 151
SplitInputFile ==
    /\ pc = "start"
    /\ input_file_name' = Splitext(input_file)[1]
    /\ input_file_ext' = Splitext(input_file)[2]
    /\ pc' = "dispatch"
    /\ UNCHANGED <<err, tz, locale, input_file, document, table_header,
                   table_rows, row_index, parsed_table, data, calls,
                   combinations, num_columns, num_rows, count, plots, image>>

\* lines 153-154 and 30-31: pd.read_csv passes the file's lines through
CallGetDataFromCsv ==
    /\ pc = "dispatch"
    /\ IsCsv(input_file_ext)
    /\ calls' = Append(calls, "get_data_from_csv")
    /\ IF document.header = <<>>
       THEN Raise("EmptyDataError") /\ data' = data
       ELSE /\ data' = [assigned |-> TRUE, frame |-> document.rows]
            /\ pc' = "loaded"
            /\ err' = err
    /\ UNCHANGED <<tz, locale, input_file, document, input_file_name,
                   input_file_ext, table_header, table_rows, row_index,
                   parsed_table, combinations, num_columns, num_rows, count,
                   plots, image>>

\* lines 155-156 and 43-56: set the locale, read the page, find the table, its
\* header and its rows
CallGetDataFromHtml ==
    /\ pc = "dispatch"
    /\ ~IsCsv(input_file_ext)
    /\ IsHtml(input_file_ext)
    /\ calls' = Append(calls, "get_data_from_html")
    /\ locale' = "en_US.UTF-8"
    /\ parsed_table' = <<>>
    /\ IF ~document.table
       THEN /\ Raise("AttributeError")
            /\ UNCHANGED <<table_header, table_rows, row_index>>
       ELSE /\ table_header' = document.header
            /\ table_rows' = document.rows
            /\ row_index' = 1
            /\ pc' = "html_loop"
            /\ err' = err
    /\ UNCHANGED <<tz, input_file, document, input_file_name, input_file_ext,
                   data, combinations, num_columns, num_rows, count, plots,
                   image>>

\* the record put in front
ListPrepend(list, item) == <<item>> \o list

\* parsed_table.append(parsed_row), line 103
ListAppend(list, item) == Append(list, item)

\* a row that fails is skipped
HtmlRowSkipping ==
    /\ pc = "html_loop"
    /\ row_index <= Len(table_rows)
    /\ LET r == ParsedRow(tz, locale, table_header, table_rows[row_index])
       IN  parsed_table' = IF r.ok THEN ListAppend(parsed_table, r.val)
                           ELSE parsed_table
    /\ row_index' = row_index + 1
    /\ UNCHANGED <<pc, err, tz, locale, input_file, document, input_file_name,
                   input_file_ext, table_header, table_rows, data, calls,
                   combinations, num_columns, num_rows, count, plots, image>>

\* lines 58-103: one pass of the loop; an exception leaves the function
HtmlRow ==
    /\ pc = "html_loop"
    /\ row_index <= Len(table_rows)
    /\ LET r == ParsedRow(tz, locale, table_header, table_rows[row_index])
       IN  IF r.ok
           THEN /\ parsed_table' = ListAppend(parsed_table, r.val)
                /\ row_index' = row_index + 1
                /\ UNCHANGED <<pc, err>>
           ELSE /\ Raise(r.err)
                /\ UNCHANGED <<parsed_table, row_index>>
    /\ UNCHANGED <<tz, locale, input_file, document, input_file_name,
                   input_file_ext, table_header, table_rows, data, calls,
                   combinations, num_columns, num_rows, count, plots, image>>

\* lines 105 and 156: the loop is over, the frame of the records is returned
HtmlReturn ==
    /\ pc = "html_loop"
    /\ row_index > Len(table_rows)
    /\ data' = [assigned |-> TRUE, frame |-> parsed_table]
    /\ pc' = "loaded"
    /\ UNCHANGED <<err, tz, locale, input_file, document, input_file_name,
                   input_file_ext, table_header, table_rows, row_index,
                   parsed_table, calls, combinations, num_columns, num_rows,
                   count, plots, image>>

\* lines 157-158
RaiseUnsupported ==
    /\ pc = "dispatch"
    /\ ~IsCsv(input_file_ext)
    /\ ~IsHtml(input_file_ext)
    /\ Raise("ValueError")
    /\ UNCHANGED <<tz, locale, input_file, document, input_file_name,
                   input_file_ext, table_header, table_rows, row_index,
                   parsed_table, data, calls, combinations, num_columns,
                   num_rows, count, plots, image>>

\* lines 160-188
BuildCombinations ==
    /\ pc = "loaded"
    /\ combinations' = Product(independent_vars, dependent_vars, modifiers)
    /\ pc' = "draw"
    /\ UNCHANGED <<err, tz, locale, input_file, document, input_file_name,
                   input_file_ext, table_header, table_rows, row_index,
                   parsed_table, data, calls, num_columns, num_rows, count,
                   plots, image>>

-----------------------------------------------------------------------------
(* draw_lmplots *)

MaxSubplots == 16

\* the check of lines 122-123 switched on
TooManyPlotsChecked(num_plots) == num_plots > MaxSubplots

\* lines 122-123: the check of the number of plots is commented out
TooManyPlots(num_plots) == FALSE

\* int(math.floor(math.sqrt(n)))
FloorSqrt(n) == CHOOSE c \in 0..n : c * c <= n /\ (c + 1) * (c + 1) > n

\* int(math.ceil(n / c)), for c > 0
CeilDiv(n, c) == (n + c - 1) \div c

\* line 125
NumColumns(num_plots) == FloorSqrt(num_plots)

\* the quotient rounded down
NumRowsFloor(num_plots, columns) == num_plots \div columns

\* line 126
NumRows(num_plots, columns) == CeilDiv(num_plots, columns)

\* lines 120-127
DrawLayout ==
    /\ pc = "draw"
    /\ LET num_plots == Len(combinations)
       IN  IF TooManyPlots(num_plots)
           THEN Raise("ValueError: Too many subplots")
                /\ UNCHANGED <<num_columns, num_rows, count>>
           ELSE IF NumColumns(num_plots) = 0
           THEN Raise("ZeroDivisionError")
                /\ num_columns' = NumColumns(num_plots)
                /\ UNCHANGED <<num_rows, count>>
           ELSE /\ num_columns' = NumColumns(num_plots)
                /\ num_rows' = NumRows(num_plots, NumColumns(num_plots))
                /\ count' = 1
                /\ pc' = "draw_loop"
                /\ err' = err
    /\ UNCHANGED <<tz, locale, input_file, document, input_file_name,
                   input_file_ext, table_header, table_rows, row_index,
                   parsed_table, data, calls, combinations, plots, image>>

\* lines 129-141: one pass of the loop; plt.subplot refuses a position
\* outside the grid
DrawSubplot ==
    /\ pc = "draw_loop"
    /\ count <= Len(combinations)
    /\ IF count < 1 \/ count > num_rows * num_columns
       THEN Raise("ValueError") /\ UNCHANGED <<plots, count>>
       ELSE /\ plots' = Append(plots,
                               [rows |-> num_rows, columns |-> num_columns,
                                position |-> count,
                                combination |-> combinations[count]])
            /\ count' = count + 1
            /\ UNCHANGED <<pc, err>>
    /\ UNCHANGED <<tz, locale, input_file, document, input_file_name,
                   input_file_ext, table_header, table_rows, row_index,
                   parsed_table, data, calls, combinations, num_columns,
                   num_rows, image>>

\* the loop of line 129 is over
DrawReturn ==
    /\ pc = "draw_loop"
    /\ count > Len(combinations)
    /\ pc' = "save"
    /\ UNCHANGED <<err, tz, locale, input_file, document, input_file_name,
                   input_file_ext, table_header, table_rows, row_index,
                   parsed_table, data, calls, combinations, num_columns,
                   num_rows, count, plots, image>>

\* lines 194-200
SaveFig ==
    /\ pc = "save"
    /\ image' = input_file_name \o <<".", "p", "n", "g">>
    /\ pc' = "done"
    /\ UNCHANGED <<err, tz, locale, input_file, document, input_file_name,
                   input_file_ext, table_header, table_rows, row_index,
                   parsed_table, data, calls, combinations, num_columns,
                   num_rows, count, plots>>

Next ==
    \/ SplitInputFile
    \/ CallGetDataFromCsv
    \/ CallGetDataFromHtml
    \/ HtmlRow
    \/ HtmlReturn
    \/ RaiseUnsupported
    \/ BuildCombinations
    \/ DrawLayout
    \/ DrawSubplot
    \/ DrawReturn
    \/ SaveFig

Spec == Init /\ [][Next]_vars

-----------------------------------------------------------------------------
(* draw_lmplots on its own: any list of combinations, over the frame of a   *)
(* one-row report                                                          *)

\* columns of the frame that a caller may name
ColumnPool == <<"Duration (s)", "Profit (%)", "Asset", "Provider", "Status">>

\* a list of n combinations of columns
Combinations(n) ==
    [k \in 1..n |->
        <<ColumnPool[(k % 2) + 1], ColumnPool[((k \div 2) % 2) + 1],
          ColumnPool[(k % 3) + 3]>>]

InitDraw ==
    /\ pc = "draw"
    /\ err = ""
    /\ tz \in TimeZones
    /\ locale = "en_US.UTF-8"
    /\ input_file = <<"i", ".", "h", "t", "m", "l">>
    /\ document = Doc(Header0, <<ScenarioRow>>)
    /\ input_file_name = <<"i">>
    /\ input_file_ext = HtmlExt
    /\ table_header = Header0
    /\ table_rows = <<ScenarioRow>>
    /\ row_index = 2
    /\ parsed_table = <<ParsedRow(tz, locale, Header0, ScenarioRow).val>>
    /\ data = [assigned |-> TRUE, frame |-> parsed_table]
    /\ calls = <<"get_data_from_html">>
    /\ combinations \in {Combinations(n) : n \in 0..MaxPlots}
    /\ num_columns = 0
    /\ num_rows = 0
    /\ count = 0
    /\ plots = <<>>
    /\ image = <<>>

NextDraw == DrawLayout \/ DrawSubplot \/ DrawReturn

SpecDraw == InitDraw /\ [][NextDraw]_vars

-----------------------------------------------------------------------------
(* get_data_from_html as a function of the zone and the page *)

\* lines 58-105: the records of the rows, or the first exception
RECURSIVE ParsedTable(_, _, _, _)
ParsedTable(zone, header, rows, acc) ==
    IF rows = <<>> THEN Ok(acc)
    ELSE LET r == ParsedRow(zone, "en_US.UTF-8", header, Head(rows))
         IN  IF r.ok
             THEN ParsedTable(zone, header, Tail(rows), ListAppend(acc, r.val))
             ELSE Fail(r.err)

\* lines 43-105
GetDataFromHtml(zone, doc) ==
    IF ~doc.table THEN Fail("AttributeError")
    ELSE ParsedTable(zone, doc.header, doc.rows, <<>>)

-----------------------------------------------------------------------------
(* Properties *)

\* the run went through get_data_from_html and found the table
HtmlRun == calls = <<"get_data_from_html">> /\ document.table

\* get_data_from_html has returned
HtmlReturned == HtmlRun /\ data.assigned

\* the record the loop makes of row k of the page
RowRecord(k) ==
    ParsedRow(tz, "en_US.UTF-8", document.header, document.rows[k])

AllRowsParse == \A k \in 1..Len(document.rows) : RowRecord(k).ok

\* the time markers of the first date cell of row k, as integers
Marker(k, i) == ParseInt(DateCells(document.rows[k])[1].times[i].datetime).val

\* C1: when every data row of the table parses, the run does not fail in the
\* loader and the returned record set has one record per data row, the k-th
\* built from the k-th row.
C1_OneRecordPerRowInOrder ==
    (HtmlRun /\ AllRowsParse) =>
        /\ pc # "error"
        /\ pc # "html_loop" =>
            /\ data.assigned
            /\ Len(data.frame) = Len(document.rows)
            /\ \A k \in 1..Len(document.rows) :
                  /\ data.frame[k] = RowRecord(k).val
                  /\ data.frame[k].Pair =
                        document.rows[k][IndexOf(document.header, "Pair")].text

C1_Witness ==
    /\ HtmlReturned
    /\ Len(document.rows) = 2
    /\ document.rows[1] # document.rows[2]
    /\ Len(data.frame) = 2

\* C2: in every returned record, Asset, "/" and Currency joined give Pair
\* (as claimed, also for pairs with more than one "/").
C2_AssetCurrencyRejoinPair ==
    HtmlReturned =>
        \A k \in 1..Len(data.frame) :
            data.frame[k].Asset \o <<"/">> \o data.frame[k].Currency
                = data.frame[k].Pair

\* the page of the end-to-end scenario, in any layout of the model
ScenarioPage ==
    \E p \in Layouts : document = PermuteDoc(Doc(Header0, <<ScenarioRow>>), p)

\* C3 as claimed: the scenario's one row gives one record with Asset ETH,
\* Currency BTC, Duration (s) 3600.0 and Profit (%) 0.04.
C3_ScenarioAsClaimed ==
    (HtmlReturned /\ ScenarioPage) =>
        /\ Len(data.frame) = 1
        /\ data.frame[1].Asset = <<"E", "T", "H">>
        /\ data.frame[1].Currency = <<"B", "T", "C">>
        /\ data.frame[1].Duration = <<3600, 1>>
        /\ data.frame[1].ProfitPct = <<1, 25>>

\* C3 amended: the scenario's one row gives one record with Asset ETH,
\* Currency BTC, Profit (%) 0.04 and, the zone's offset being the same at
\* both markers, Duration (s) 1002600.0 = (1003600000 - 1000000) / 1000.
C3_ScenarioAmended ==
    (HtmlRun /\ ScenarioPage) =>
        /\ pc # "error"
        /\ pc # "html_loop" =>
            /\ data.assigned
            /\ Len(data.frame) = 1
            /\ data.frame[1].Asset = <<"E", "T", "H">>
            /\ data.frame[1].Currency = <<"B", "T", "C">>
            /\ data.frame[1].Provider = "Acme Signals"
            /\ data.frame[1].ProfitPct = <<1, 25>>
            /\ UtcOffset(tz, 1000000) = UtcOffset(tz, 1003600000)
                  => data.frame[1].Duration = <<1002600, 1>>

C3_Witness == HtmlReturned /\ ScenarioPage /\ pc = "done"

\* C4: in every returned record, Open and Close are the local times of the
\* first and second marker, Duration (s) is Close minus Open in seconds, and
\* Duration (s) is not negative when the second marker is not smaller than
\* the first.
C4_DurationOfMarkers ==
    HtmlReturned =>
        \A k \in 1..Len(data.frame) :
            /\ data.frame[k].Open = FromTimestamp(tz, Marker(k, 1))
            /\ data.frame[k].Close = FromTimestamp(tz, Marker(k, 2))
            /\ data.frame[k].Duration
                  = Rat(data.frame[k].Close - data.frame[k].Open, 1000)
            /\ Marker(k, 2) >= Marker(k, 1) => data.frame[k].Duration[1] >= 0

\* C5: when the header lacks a required column name, the loader fails and
\* returns no record set, whatever the number of data rows.
C5_MissingColumnFails ==
    (HtmlRun /\ \E name \in Required : name \notin Range(document.header)) =>
        /\ ~data.assigned
        /\ pc \in {"html_loop", "error"}

\* C6: with an extension other than .csv and .html the run ends in an error
\* with no loader called, nothing plotted and no image written; with .csv only
\* get_data_from_csv is called, with .html only get_data_from_html.
C6_DispatchByExtension ==
    pc # "start" =>
        /\ input_file_ext \notin {CsvExt, HtmlExt} =>
              /\ pc \in {"dispatch", "error"}
              /\ pc = "error" => err = "ValueError"
              /\ calls = <<>>
              /\ ~data.assigned
              /\ plots = <<>>
              /\ image = <<>>
        /\ input_file_ext = CsvExt => Range(calls) \subseteq {"get_data_from_csv"}
        /\ input_file_ext = HtmlExt => Range(calls) \subseteq {"get_data_from_html"}
        /\ pc # "dispatch" /\ input_file_ext \in {CsvExt, HtmlExt}
              => Len(calls) = 1

C6_Witness ==
    /\ pc = "error"
    /\ err = "ValueError"
    /\ input_file_ext = <<".", "t", "x", "t">>
    /\ calls = <<>>

\* C7 as claimed: with more than 16 combinations draw_lmplots fails with the
\* too-many-plots error and draws nothing; with 16 or fewer it does not fail
\* with that error.
C7_TooManyPlotsAsClaimed ==
    pc # "draw" =>
        IF Len(combinations) > MaxSubplots
        THEN pc = "error" /\ err = "ValueError: Too many subplots" /\ plots = <<>>
        ELSE err # "ValueError: Too many subplots"

\* C7 amended: draw_lmplots never fails with the too-many-plots error; with
\* more than 16 combinations it does not fail at all and draws one subplot
\* for every combination.
C7_NoPlotLimit ==
    /\ err # "ValueError: Too many subplots"
    /\ Len(combinations) > MaxSubplots =>
          /\ pc \in {"draw", "draw_loop", "save"}
          /\ pc = "save" => Len(plots) = Len(combinations)

C7_Witness ==
    /\ pc = "save"
    /\ Len(combinations) = MaxSubplots + 1
    /\ Len(plots) = MaxSubplots + 1

\* C8: for n >= 1 combinations the grid has floor(sqrt(n)) columns and
\* ceil(n / columns) rows, combination k is drawn at position k, the
\* positions fit the grid, (rows - 1) * columns < n <= rows * columns and
\* columns <= rows <= columns + 2; for n = 0 the layout fails with a division
\* by zero.
C8_GridLayout ==
    LET n == Len(combinations)
    IN  /\ (n >= 1 /\ pc # "draw") =>
              /\ pc \in {"draw_loop", "save"}
              /\ num_columns * num_columns <= n
              /\ (num_columns + 1) * (num_columns + 1) > n
              /\ (num_rows - 1) * num_columns < n
              /\ n <= num_rows * num_columns
              /\ num_columns <= num_rows
              /\ num_rows <= num_columns + 2
              /\ \A k \in 1..Len(plots) :
                    /\ plots[k].position = k
                    /\ plots[k].combination = combinations[k]
                    /\ plots[k].rows = num_rows
                    /\ plots[k].columns = num_columns
                    /\ plots[k].position <= num_rows * num_columns
              /\ pc = "save" => Len(plots) = n
        /\ (n = 0 /\ pc # "draw") =>
              pc = "error" /\ err = "ZeroDivisionError" /\ plots = <<>>

C8_Witness ==
    /\ pc = "save"
    /\ Len(combinations) = 8
    /\ num_rows = num_columns + 2
    /\ Len(plots) = 8

\* the exchanges of two columns of a table of n columns
Transpositions(n) ==
    {[k \in 1..n |-> IF k = i THEN j ELSE IF k = j THEN i ELSE k] :
        i \in 1..n, j \in 1..n}

\* what the loader gave: the record set, or the exception
LoaderResult == IF data.assigned THEN Ok(data.frame) ELSE Fail(err)

\* the loader has just returned or failed, the page has as many cells in each
\* row as columns and no two columns of the same name
PermutablePage ==
    /\ HtmlRun
    /\ pc \in {"loaded", "error"}
    /\ \A i, j \in 1..Len(document.header) :
          document.header[i] = document.header[j] => i = j
    /\ \A k \in 1..Len(document.rows) :
          Len(document.rows[k]) = Len(document.header)

\* no row has two cells of class date or two cells holding an image
OneDateOneImage ==
    \A k \in 1..Len(document.rows) :
        /\ Len(DateCells(document.rows[k])) <= 1
        /\ Cardinality({i \in 1..Len(document.rows[k]) :
                            document.rows[k][i].imgs # <<>>}) <= 1

\* in every record the seven header-named fields come from the cell under
\* their header name
FieldsFromNamedCells ==
    HtmlReturned =>
        \A k \in 1..Len(data.frame) :
            LET text(name) ==
                    document.rows[k][CHOOSE i \in 1..Len(document.header) :
                                        document.header[i] = name].text
                num(name) ==
                    ParseFloat(Remove(Split(text(name), NBSP)[1], ",")).val
            IN  /\ data.frame[k].Pair = text("Pair")
                /\ data.frame[k].Status = text("Status")
                /\ data.frame[k].BuyPrice = num("Buy Price")
                /\ data.frame[k].SellPrice = num("Sell Price")
                /\ data.frame[k].Amount = num("Amount")
                /\ data.frame[k].Invested = num("Invested")
                /\ data.frame[k].Profit = num("Profit BTC")

\* C9 as claimed: the loader gives the same result for the page and for the
\* page with its columns (header cells and cells of every row) permuted, and
\* the seven header-named fields come from the cell under their header name.
C9_ColumnOrderAsClaimed ==
    /\ PermutablePage =>
          \A p \in Transpositions(Len(document.header)) :
              GetDataFromHtml(tz, PermuteDoc(document, p)) = LoaderResult
    /\ FieldsFromNamedCells

\* C9 amended: the same, for pages where no row has more than one cell of
\* class date or more than one cell holding an image; the seven header-named
\* fields come from the cell under their header name on every page.
C9_ColumnOrderAmended ==
    /\ (PermutablePage /\ OneDateOneImage) =>
          \A p \in Transpositions(Len(document.header)) :
              GetDataFromHtml(tz, PermuteDoc(document, p)) = LoaderResult
    /\ FieldsFromNamedCells

C9_Witness ==
    /\ PermutablePage
    /\ OneDateOneImage
    /\ data.assigned
    /\ document.header = Permute(Header0, Reversed)
    /\ Len(data.frame) = 2

\* C10: when a row of the page fails, the loader returns nothing, also after
\* earlier rows were parsed, and the run ends without a plot or an image; an
\* image is written only after the whole record set was returned and every
\* plot was drawn.
C10_NoPartialResult ==
    /\ (HtmlRun /\ ~AllRowsParse) =>
          /\ ~data.assigned
          /\ pc \in {"html_loop", "error"}
          /\ combinations = <<>>
          /\ plots = <<>>
          /\ image = <<>>
    /\ pc = "error" => image = <<>>
    /\ image # <<>> =>
          /\ data.assigned
          /\ Len(plots) = Len(combinations)
          /\ HtmlRun => (AllRowsParse /\ Len(data.frame) = Len(document.rows))

C10_Witness ==
    /\ HtmlRun
    /\ pc = "error"
    /\ err = "ZeroDivisionError"
    /\ Len(parsed_table) = 1
    /\ ~data.assigned
    /\ image = <<>>

====
